---- MODULE Spec2Model ----
(***************************************************************************)
(* A model of target-mailchimp-v2's batch contact sink                     *)
(* (src/target_mailchimp_v2/sinks.py, class MailChimpV2Sink): one batch    *)
(* cycle is start_batch (list resolution), process_batch_record for each   *)
(* record (mapping, with the lazily loaded merge-field and interest caches *)
(* and their on-demand provisioning calls), make_batch_request (dispatch)  *)
(* and handle_batch_response followed by the update_state loop             *)
(* (reconciliation).                                                       *)
(*                                                                         *)
(* The sink is modelled in its default configuration: the stream is one of *)
(* contact_names and process_batch_contacts is left at its default (True), *)
(* so process_batch_record takes its first branch (lines 207-365).         *)
(*                                                                         *)
(* Python values are tagged records, so that None, "", 0, False, {} and [] *)
(* stay distinct and truthiness is computed as Python computes it.         *)
(* Every network call is a step of its own whose result (a response or an  *)
(* HTTP status) is chosen by the provider.  An exception leaving           *)
(* process_batch ends the run (pc = "failed"): nothing in the sink catches *)
(* it.                                                                     *)
(***************************************************************************)
EXTENDS Integers, Sequences, FiniteSets, TLC

(***************************************************************************)
(* Bounds of the model.                                                    *)
(***************************************************************************)
\* batch cycles of a run
MaxBatches == 2
\* records of one batch
MaxBatchLen == 2
\* records the upstream supplies in a run
MaxRecords == 2

(***************************************************************************)
(* Python values.                                                          *)
(***************************************************************************)
None == [t |-> "none"]
\* a key that is not in the dict at all (dict.get(key, default) tells it from None)
Absent == [t |-> "absent"]
S(x) == [t |-> "str", v |-> x]
I(x) == [t |-> "int", v |-> x]
B(x) == [t |-> "bool", v |-> x]
D(f) == [t |-> "dict", v |-> f]
L(s) == [t |-> "list", v |-> s]
EmptyDict == [k \in {} |-> None]

\* bool(v)
Truthy(v) ==
    CASE v.t = "none" -> FALSE
      [] v.t = "absent" -> FALSE
      [] v.t = "str" -> v.v /= ""
      [] v.t = "int" -> v.v /= 0
      [] v.t = "bool" -> v.v
      [] v.t = "dict" -> DOMAIN v.v /= {}
      [] v.t = "list" -> Len(v.v) > 0
      [] OTHER -> TRUE

\* dict.get(key): None for a missing key
Get(d, k) == IF k \in DOMAIN d /\ d[k] /= Absent THEN d[k] ELSE None
\* dict.get(key, default): the default only for a missing key
GetDefault(d, k, default) == IF k \in DOMAIN d /\ d[k] /= Absent THEN d[k] ELSE default

(***************************************************************************)
(* Strings of the model and the string methods the sink applies to them.   *)
(***************************************************************************)
\* str.strip()
Strip(s) ==
    CASE s = " a@x.com " -> "a@x.com"
      [] s = "  " -> ""
      [] OTHER -> s

\* str.lower()
Lower(s) ==
    CASE s = "A@x.com" -> "a@x.com"
      [] s = "A@X.COM" -> "a@x.com"
      [] s = "B@X.COM" -> "b@x.com"
      [] s = " A@X.COM " -> " a@x.com "
      [] OTHER -> s

\* the same address in the other letter case, as a provider may echo it
Upper(s) ==
    CASE s = "a@x.com" -> "A@X.COM"
      [] s = "A@x.com" -> "A@X.COM"
      [] s = "b@x.com" -> "B@X.COM"
      [] OTHER -> s

(***************************************************************************)
(* classify_batch_error_or_false: the class attached to an error code, or  *)
(* False.                                                                  *)
(***************************************************************************)
RecognizedCodes ==
    {"ERROR_GENERIC", "HG_EMAIL_REQUIRED", "HG_ADDRESS_FORMAT_ERROR",
     "HG_LIST_ITEM_FORMAT_ERROR", "HG_GROUP_TITLE_NOT_FOUND", "HG_ADDRESS_MISSING_FIELDS"}

classify_batch_error_or_false(error) ==
    IF Get(error, "error_code") \in {S(c) : c \in RecognizedCodes}
    THEN D([hg_error_class |-> S("InvalidPayloadError")])
    ELSE B(FALSE)

(***************************************************************************)
(* handle_call_api_error: the exception it raises for a failed call with   *)
(* the given status; custom tells whether a custom message was passed      *)
(* (only make_batch_request passes one).                                   *)
(***************************************************************************)
Statuses == {400, 401, 403, 502}

\* handle_call_api_error without lines 26-27: a 400 is not told apart
handle_call_api_error_No400(status, custom) ==
    IF status = 401 \/ status = 403 THEN "InvalidCredentialsError"
    ELSE IF custom THEN "Exception"
    ELSE "ApiClientError"

handle_call_api_error(status, custom) ==
    IF status = 401 \/ status = 403 THEN "InvalidCredentialsError"
    ELSE IF status = 400 THEN "InvalidPayloadError"
    ELSE IF custom THEN "Exception"
    ELSE "ApiClientError"

(***************************************************************************)
(* get_email_if_exists                                                     *)
(***************************************************************************)
\* get_email_if_exists without the strip() of lines 39 and 41
get_email_if_exists_NoStrip(record) ==
    IF Truthy(Get(record, "email_address")) THEN Get(record, "email_address")
    ELSE IF Truthy(Get(record, "email")) THEN Get(record, "email")
    ELSE None

\* get_email_if_exists reading the unified key only: email_address is ignored
get_email_if_exists_EmailOnly(record) ==
    IF Truthy(Get(record, "email")) THEN S(Strip(Get(record, "email").v)) ELSE None

get_email_if_exists(record) ==
    IF Truthy(Get(record, "email_address"))
    THEN S(Strip(Get(record, "email_address").v))
    ELSE IF Truthy(Get(record, "email"))
    THEN S(Strip(Get(record, "email").v))
    ELSE None

(***************************************************************************)
(* clean_convert                                                           *)
(***************************************************************************)
\* v in [0, "", False], with Python's ==  (False == 0)
InAllowedValues(v) ==
    \/ v.t = "int" /\ v.v = 0
    \/ v.t = "str" /\ v.v = ""
    \/ v.t = "bool" /\ v.v = FALSE

\* "if v" alone: the allowed values are dropped like None
Kept_TruthyOnly(v) == Truthy(v)

\* v or v in allowed_values
Kept(v) == Truthy(v) \/ InAllowedValues(v)

RECURSIVE FilterSeq(_)
FilterSeq(s) ==
    IF s = <<>> THEN <<>>
    ELSE IF Kept(Head(s)) THEN <<Head(s)>> \o FilterSeq(Tail(s))
    ELSE FilterSeq(Tail(s))

RECURSIVE clean_convert(_)
clean_convert(input) ==
    IF input.t = "list"
    THEN L([i \in 1..Len(input.v) |-> clean_convert(input.v[i])])
    ELSE IF input.t = "dict"
    THEN LET cv == [k \in DOMAIN input.v |-> clean_convert(input.v[k])]
             keys == {k \in DOMAIN input.v : cv[k].t = "list" \/ Kept(cv[k])}
         IN D([k \in keys |-> IF cv[k].t = "list" THEN L(FilterSeq(cv[k].v)) ELSE cv[k]])
    ELSE IF Kept(input) THEN input
    ELSE None

(***************************************************************************)
(* list_name.split("/"): a list item is the sequence of its tokens, "/"    *)
(* being the separator token; the result is the sequence of the parts.     *)
(***************************************************************************)
RECURSIVE SplitFrom(_, _)
SplitFrom(s, cur) ==
    IF s = <<>> THEN <<cur>>
    ELSE IF Head(s) = "/" THEN <<cur>> \o SplitFrom(Tail(s), "")
    ELSE SplitFrom(Tail(s), Head(s))

\* split("/", 1) with what follows a second "/" dropped: never more than two parts
Split_FirstTwo(s) == IF Len(SplitFrom(s, "")) >= 2 THEN SubSeq(SplitFrom(s, ""), 1, 2) ELSE SplitFrom(s, "")

Split(s) == SplitFrom(s, "")

(***************************************************************************)
(* The input records the upstream may supply.  A record is a dict; a key   *)
(* it does not have is Absent.                                             *)
(***************************************************************************)
Rec(email_address, email, externalId, addresses, custom_fields, lists) ==
    [email_address |-> email_address, email |-> email, externalId |-> externalId,
     addresses |-> addresses, custom_fields |-> custom_fields, lists |-> lists]

Addr(line1, city, state, zip, country) ==
    D([line1 |-> line1, city |-> city, state |-> state, postalCode |-> Absent,
       postal_code |-> zip, country |-> country])

FullAddress == Addr(S("1 Main St"), S("Springfield"), S("IL"), S("62701"), S("US"))
PartialAddress == Addr(S("1 Main St"), None, S("IL"), Absent, S("US"))

\* a custom field {name, value}
CF(name, value) == D([name |-> S(name), value |-> value])

FieldNames == {"COMPANY", "Company", "New"}

ItemKnown == <<"VIP", "/", "Gold">>
ItemNewName == <<"VIP", "/", "Silver">>
ItemNoTitle == <<"Nope", "/", "Gold">>
ItemNoSlash == <<"VIP">>
ItemTwoSlashes == <<"VIP", "/", "Gold", "/", "x">>

\* records that differ in their identity fields only
IdentityRecords ==
    {Rec(Absent, Absent, Absent, Absent, Absent, Absent),
     Rec(S("  "), Absent, S("ext1"), Absent, Absent, Absent),
     Rec(S(""), S("  "), None, Absent, Absent, Absent),
     Rec(None, S(" a@x.com "), Absent, Absent, Absent, Absent),
     Rec(S("A@x.com"), S("b@x.com"), None, Absent, Absent, Absent)}

\* records with an address
AddressRecords ==
    {Rec(S("b@x.com"), Absent, S("ext2"), D([line1 |-> S("1 Main St")]),
         L(<<CF("New", S("v1"))>>), L(<<ItemNoSlash>>)),
     Rec(S("b@x.com"), Absent, S("ext2"), L(<<FullAddress>>), Absent, Absent),
     Rec(S("b@x.com"), Absent, S("ext2"), L(<<PartialAddress>>), Absent, Absent),
     Rec(Absent, S("  "), S("ext1"), D([line1 |-> S("1 Main St")]), Absent,
         L(<<ItemNoSlash>>))}

\* records with custom fields
CustomFieldRecords ==
    {Rec(S("a@x.com"), Absent, S("ext3"), Absent, L(cfs), Absent) :
        cfs \in {<<CF("COMPANY", S("v1"))>>, <<CF("Company", S("v2"))>>,
                 <<CF("New", S("v1"))>>, <<CF("New", None)>>,
                 <<CF("New", S("v1")), CF("New", S("v2"))>>,
                 <<S("junk"), CF("Company", S(""))>>}}

\* records with lists
ListRecords ==
    {Rec(S("b@x.com"), Absent, S("ext4"), Absent, Absent, L(ls)) :
        ls \in {<<ItemKnown>>, <<ItemNewName, ItemNewName>>,
                <<ItemNewName, ItemTwoSlashes>>}}
    \cup
    {Rec(S("b@x.com"), Absent, S("ext4"), Absent, L(<<CF("New", S("v1"))>>), L(ls)) :
        ls \in {<<ItemNoSlash>>, <<ItemNewName, ItemNoTitle>>}}

RecordPool == IdentityRecords \cup AddressRecords \cup CustomFieldRecords \cup ListRecords

(***************************************************************************)
(* What the provider may answer.                                           *)
(***************************************************************************)
\* client.lists.get_all_lists()
ListsResponses ==
    {<<>>, <<[id |-> "L1", name |-> "Main"], [id |-> "L2", name |-> "News"]>>}

\* the configured list_name
ListNames == {None, S(""), S("NEWS"), S("Other")}

LowerName(s) ==
    CASE s = "Main" -> "main"
      [] s = "News" -> "news"
      [] s = "NEWS" -> "news"
      [] s = "Other" -> "other"
      [] OTHER -> s

\* client.lists.get_list_merge_fields(list_id)["merge_fields"], as name -> tag
MergeFieldResponses == {EmptyDict, [Company |-> "COMPANY"]}

\* the tag the provider gives a new merge field
NewTag(name) ==
    CASE name = "New" -> "MMERGE5"
      [] name = "Company" -> "MMERGE6"
      [] name = "COMPANY" -> "MMERGE7"
      [] OTHER -> "MMERGE8"

\* a name the provider may answer instead of the requested one
AlteredName(name) ==
    CASE name = "New" -> "New_"
      [] name = "Company" -> "Company_"
      [] OTHER -> "COMPANY_"

\* GET /lists/{id}/interest-categories: the categories, in order
CategoryResponses ==
    {<<>>, <<[title |-> "VIP", id |-> "c1"]>>,
     <<[title |-> "VIP", id |-> "c1"], [title |-> "Tier", id |-> "c2"]>>}

\* GET /lists/{id}/interest-categories/{cat}/interests, as name -> id
InterestResponses(title) ==
    IF title = "VIP" THEN {EmptyDict, [Gold |-> "i1"]} ELSE {EmptyDict}

\* the id the provider gives a new interest
NewInterestId(title, name) ==
    CASE name = "Silver" -> "i2"
      [] name = "Gold" -> "i3"
      [] OTHER -> "i4"

\* the id the provider gives the member of the j-th entry of a response
MemberId(j) ==
    CASE j = 1 -> "m1"
      [] j = 2 -> "m2"
      [] j = 3 -> "m3"
      [] OTHER -> "m4"

\* one entry of a batch response: where it is listed, how the email is echoed
\* (as sent, in upper case, or in another form of the provider's own) and,
\* for an error, its error_code
EntryShapes ==
    {[kind |-> "new_members", echo |-> "same", code |-> "-"],
     [kind |-> "updated_members", echo |-> "other", code |-> "-"],
     [kind |-> "errors", echo |-> "upper", code |-> "ERROR_GENERIC"],
     [kind |-> "errors", echo |-> "same", code |-> "ERROR_CONTACT_EXISTS"]}

(***************************************************************************)
(* The state of the sink and of the batch cycle in progress.               *)
(***************************************************************************)
VARIABLES
    pc,                 \* where the batch cycle is
    config_list_name,   \* self.config.get("list_name")
    list_id,            \* self.list_id
    custom_fields,      \* self.custom_fields: None, or name -> tag
    groups_dict,        \* self.groups_dict: None, or title -> {id, group_names}
    external_ids_dict,  \* self.external_ids_dict: lowercased email -> externalId
    latest_state,       \* the outcomes folded by update_state, in order
    batches,            \* the number of batch cycles started
    mapped,             \* the results of process_batch_record for the batch
    frame,              \* the locals of the process_batch_record in progress
    response,           \* what make_batch_request returned
    raised,             \* the exception that ended the run, or None
    ncalls,             \* how often each provider call was made
    sent,               \* the members of the batch upsert call of this cycle
    env,                \* the environment so far: records supplied (of limit), what the provider listed and echoed
    payload             \* the value clean_convert is applied to on its own, then its result

vars == <<pc, config_list_name, list_id, custom_fields, groups_dict,
          external_ids_dict, latest_state, batches, mapped, frame, response,
          raised, ncalls, sent, env, payload>>

Titles == {"VIP", "Tier", "Nope"}
InterestNames == {"Gold", "Silver", "x", ""}

CallKeys ==
    {<<"get_all_lists", "", "">>, <<"get_list_merge_fields", "", "">>,
     <<"get_interest_categories", "", "">>, <<"batch_list_members", "", "">>}
    \cup {<<"add_list_merge_field", n, "">> : n \in FieldNames}
    \cup {<<"get_interests", t, "">> : t \in Titles}
    \cup {<<"create_interest", t, n>> : t \in Titles, n \in InterestNames}

NoFrame == [rec |-> None]

Init ==
    /\ pc = "idle"
    /\ config_list_name \in ListNames
    /\ list_id = None
    /\ custom_fields = None
    /\ groups_dict = None
    /\ external_ids_dict = EmptyDict
    /\ latest_state = <<>>
    /\ batches = 0
    /\ mapped = <<>>
    /\ frame = NoFrame
    /\ response = None
    /\ raised = None
    /\ ncalls = [k \in CallKeys |-> 0]
    /\ sent = <<>>
    /\ env = [supplied |-> 0, listed |-> None, echoed |-> TRUE, refs |-> {}, lists |-> None,
              limit |-> MaxRecords]
    /\ payload = None

\* one more call of the kind key
Called(key) == [ncalls EXCEPT ![key] = @ + 1]

\* the exception e leaves process_batch: the run ends
Raise(kind, call, status) ==
    /\ pc' = "failed"
    /\ raised' = [kind |-> kind, call |-> call, status |-> status]

(***************************************************************************)
(* get_list_id, after a successful get_all_lists: the id of the first list *)
(* when no list_name is configured, else of the first list whose name      *)
(* matches list_name ignoring case, else self.list_id unchanged.           *)
(***************************************************************************)
\* get_list_id falling back on the first list when no name matches
FirstMatch_FallbackFirst(rows, config_name) ==
    IF rows = <<>> THEN None
    ELSE IF Truthy(config_name)
            /\ \E i \in 1..Len(rows) : LowerName(rows[i].name) = LowerName(config_name.v)
    THEN S(rows[CHOOSE i \in 1..Len(rows) :
                  /\ LowerName(rows[i].name) = LowerName(config_name.v)
                  /\ \A j \in 1..(i - 1) :
                         LowerName(rows[j].name) /= LowerName(config_name.v)].id)
    ELSE S(rows[1].id)

RECURSIVE FirstMatch(_, _)
FirstMatch(rows, config_name) ==
    IF rows = <<>> THEN None
    ELSE IF ~Truthy(config_name) THEN S(Head(rows).id)
    ELSE IF LowerName(Head(rows).name) = LowerName(config_name.v) THEN S(Head(rows).id)
    ELSE FirstMatch(Tail(rows), config_name)

(***************************************************************************)
(* start_batch: self.list_id = self.get_list_id().  The access token is an *)
(* API key, so get_server needs no network call.                           *)
(***************************************************************************)
StartBatch ==
    /\ pc = "idle"
    /\ batches < MaxBatches
    /\ env.supplied < env.limit
    /\ batches' = batches + 1
    /\ mapped' = <<>>
    /\ sent' = <<>>
    /\ response' = None
    /\ UNCHANGED <<payload, config_list_name, custom_fields, groups_dict, external_ids_dict,
                   latest_state, frame>>
    /\ \/ /\ list_id /= None
          /\ pc' = "map"
          /\ UNCHANGED <<list_id, ncalls, raised, env>>
       \/ /\ list_id = None
          /\ ncalls' = Called(<<"get_all_lists", "", "">>)
          /\ \/ \E status \in Statuses :
                   /\ Raise(handle_call_api_error(status, FALSE), "get_all_lists", status)
                   /\ UNCHANGED <<list_id, env>>
             \/ \E rows \in ListsResponses :
                   /\ list_id' = FirstMatch(rows, config_list_name)
                   /\ env' = [env EXCEPT !.lists = L(rows)]
                   /\ pc' = "map"
                   /\ UNCHANGED raised

(***************************************************************************)
(* process_batch_record, lines 207-301: identity, address, the member      *)
(* dict.  The records of the model carry no name, phone_numbers, tags or   *)
(* subscribe_status.                                                       *)
(***************************************************************************)
\* d[k] = v
Put(d, k, v) == [x \in DOMAIN d \cup {k} |-> IF x = k THEN v ELSE d[x]]

Range(f) == {f[x] : x \in DOMAIN f}

Rejection(record, text, code) ==
    D([error |-> S(text), externalId |-> Get(record, "externalId"), error_code |-> S(code)])

\* the result of process_batch_record for record, with the calls made for it
Result(out, record, net) == [out |-> out, rec |-> record, net |-> net]

IsRejection(m) == "error" \in DOMAIN m.out.v

\* lines 240-251 without the check of lines 254-258: the address is kept
\* whatever it lacks
AddressOf_Unchecked(address_dict) ==
    D([addr1 |-> Get(address_dict, "line1"),
       city |-> Get(address_dict, "city"),
       state |-> Get(address_dict, "state"),
       zip |-> GetDefault(address_dict, "postalCode", Get(address_dict, "postal_code"))])

\* lines 240-258: the ADDRESS merge field of the first address, or None
AddressOf(address_dict) ==
    LET base == [addr1 |-> Get(address_dict, "line1"),
                 city |-> Get(address_dict, "city"),
                 state |-> Get(address_dict, "state"),
                 zip |-> GetDefault(address_dict, "postalCode",
                                    Get(address_dict, "postal_code"))]
        address == IF Truthy(Get(address_dict, "country"))
                   THEN Put(base, "country", Get(address_dict, "country"))
                   ELSE base
    IN IF \E key \in {"addr1", "city", "state", "zip"} : ~Truthy(address[key])
       THEN None
       ELSE D(address)

\* lines 221-229 and 260-267
LocationOf(addresses) ==
    LET default == [latitude |-> I(0), longitude |-> I(0), gmtoff |-> I(0),
                    dstoff |-> I(0), country_code |-> S(""), timezone |-> S(""),
                    region |-> S("")]
    IN IF Truthy(addresses)
       THEN [default EXCEPT !.country_code = Get(addresses.v[1].v, "country"),
                            !.region = Get(addresses.v[1].v, "state")]
       ELSE default

\* lines 276-288
MemberOf(email, addresses) ==
    [email_address |-> email, status |-> S("subscribed"), merge_fields |-> D(EmptyDict),
     location |-> D(LocationOf(addresses))]

MergeFieldsOf(addresses) ==
    LET names == [FNAME |-> S(""), LNAME |-> S("")]
        address == IF Truthy(addresses) THEN AddressOf(addresses.v[1].v) ELSE None
    IN IF Truthy(address) THEN Put(names, "ADDRESS", address) ELSE names

MapRecord ==
    /\ pc = "map"
    /\ Len(mapped) < MaxBatchLen
    /\ env.supplied < env.limit
    /\ \E record \in RecordPool :
         LET email == get_email_if_exists(record)
             addresses == Get(record, "addresses")
         IN IF ~Truthy(email)
            THEN /\ mapped' = Append(mapped,
                        Result(Rejection(record, "Email was not provided", "HG_EMAIL_REQUIRED"),
                               record, {}))
                 /\ UNCHANGED <<pc, frame>>
            ELSE IF Truthy(addresses) /\ addresses.t /= "list"
            THEN /\ mapped' = Append(mapped,
                        Result(Rejection(record, "Addresses field is not formatted correctly",
                                         "HG_ADDRESS_FORMAT_ERROR"),
                               record, {}))
                 /\ UNCHANGED <<pc, frame>>
            ELSE /\ frame' = [rec |-> record,
                              member_dict |-> MemberOf(email, addresses),
                              merge_fields |-> MergeFieldsOf(addresses),
                              record_custom_fields |->
                                  GetDefault(record, "custom_fields", L(<<>>)).v,
                              i |-> 1,
                              group_names |-> EmptyDict,
                              group_titles |-> <<>>,
                              t |-> 1,
                              l |-> 1,
                              group_name_ids |-> <<>>,
                              net |-> {}]
                 /\ pc' = "custom"
                 /\ UNCHANGED mapped
    /\ env' = [env EXCEPT !.supplied = @ + 1]
    /\ UNCHANGED <<payload, config_list_name, list_id, custom_fields, groups_dict,
                   external_ids_dict, latest_state, batches, response, raised,
                   ncalls, sent>>

(***************************************************************************)
(* handle_custom_fields, lines 174-179: the first use loads the merge      *)
(* fields of the list.                                                     *)
(***************************************************************************)
FetchMergeFields ==
    /\ pc = "custom"
    /\ custom_fields = None
    /\ ncalls' = Called(<<"get_list_merge_fields", "", "">>)
    /\ \/ \E status \in Statuses :
            /\ Raise(handle_call_api_error(status, FALSE), "get_list_merge_fields", status)
            /\ UNCHANGED <<custom_fields, env, frame>>
       \/ \E fields \in MergeFieldResponses :
            /\ custom_fields' = D(fields)
            /\ env' = [env EXCEPT !.listed = D(fields)]
            /\ frame' = [frame EXCEPT !.net = @ \cup {"get_list_merge_fields"}]
            /\ UNCHANGED <<pc, raised>>
    /\ UNCHANGED <<payload, config_list_name, list_id, groups_dict, external_ids_dict,
                   latest_state, batches, mapped, response, sent>>

(***************************************************************************)
(* handle_custom_fields, lines 183-203: one custom field of the record.    *)
(***************************************************************************)
\* lines 192-196: the merge fields after a field whose name the cache knows
WithKnownField(merge_fields, cache, field) ==
    LET field_name == Get(field.v, "name").v
    IN IF field_name \in Range(cache)
       THEN Put(merge_fields, field_name, Get(field.v, "value"))
       ELSE Put(merge_fields, cache[field_name], Get(field.v, "value"))

\* line 203 left out: the provisioned field is not registered in the cache
AfterAddMergeField_NotRegistered(merge_fields, cache, field, merge_field_res) ==
    [custom_fields |-> cache, merge_fields |-> merge_fields]

\* line 203: the cache and the merge fields after add_list_merge_field answered
\* merge_field_res for field
AfterAddMergeField(merge_fields, cache, field, merge_field_res) ==
    [custom_fields |-> Put(cache, merge_field_res.name, merge_field_res.tag),
     merge_fields |-> merge_fields]

CustomField ==
    /\ pc = "custom"
    /\ custom_fields /= None
    /\ frame.i <= Len(frame.record_custom_fields)
    /\ LET field == frame.record_custom_fields[frame.i]
           field_name == Get(field.v, "name").v
       IN IF field.t /= "dict"
          THEN /\ frame' = [frame EXCEPT !.i = @ + 1]
               /\ UNCHANGED <<pc, custom_fields, raised, ncalls, env>>
          ELSE IF field_name \in Range(custom_fields.v) \/ field_name \in DOMAIN custom_fields.v
          THEN /\ frame' = [frame EXCEPT
                               !.i = @ + 1,
                               !.merge_fields = WithKnownField(@, custom_fields.v, field)]
               /\ env' = [env EXCEPT !.refs = @ \cup {field_name}]
               /\ UNCHANGED <<pc, custom_fields, raised, ncalls>>
          ELSE /\ ncalls' = Called(<<"add_list_merge_field", field_name, "">>)
               /\ \/ \E status \in Statuses :
                       /\ Raise(handle_call_api_error(status, FALSE),
                                "add_list_merge_field", status)
                       /\ env' = [env EXCEPT !.refs = @ \cup {field_name}]
                       /\ UNCHANGED <<custom_fields, frame>>
                  \/ \E name \in {field_name, AlteredName(field_name)} :
                       LET after == AfterAddMergeField(frame.merge_fields, custom_fields.v,
                                        field, [name |-> name, tag |-> NewTag(field_name)])
                       IN /\ custom_fields' = D(after.custom_fields)
                          /\ frame' = [frame EXCEPT
                                          !.i = @ + 1,
                                          !.merge_fields = after.merge_fields,
                                          !.net = @ \cup {"add_list_merge_field"}]
                          /\ env' = [env EXCEPT
                                          !.refs = @ \cup {field_name},
                                          !.echoed = @ /\ name = field_name]
                          /\ UNCHANGED <<pc, raised>>
    /\ UNCHANGED <<payload, config_list_name, list_id, groups_dict, external_ids_dict,
                   latest_state, batches, mapped, response, sent>>

(***************************************************************************)
(* process_batch_record, lines 357-365: prune, index the externalId and    *)
(* return the member dict.                                                 *)
(***************************************************************************)
\* line 363 assigning a new dict instead of setting a key: the index forgets
\* the records before
IndexedExternalId_Reset(index, record, member_dict) ==
    Put(EmptyDict, Lower(GetDefault(member_dict.v, "email_address", S("")).v),
        GetDefault(record, "externalId", Get(member_dict.v, "email_address")))

\* line 363: the index after the member dict of record was built
IndexedExternalId(index, record, member_dict) ==
    Put(index, Lower(GetDefault(member_dict.v, "email_address", S("")).v),
        GetDefault(record, "externalId", Get(member_dict.v, "email_address")))

\* the member dict put in front of the results instead of at their end
ReturnMember_InFront(member_dict) ==
    LET cleaned == clean_convert(D(member_dict))
    IN /\ external_ids_dict' = IndexedExternalId(external_ids_dict, frame.rec, cleaned)
       /\ mapped' = <<Result(cleaned, frame.rec, frame.net)>> \o mapped
       /\ frame' = NoFrame
       /\ pc' = "map"

\* the member dict returned and what the return leaves behind
ReturnMember(member_dict) ==
    LET cleaned == clean_convert(D(member_dict))
    IN /\ external_ids_dict' = IndexedExternalId(external_ids_dict, frame.rec, cleaned)
       /\ mapped' = Append(mapped, Result(cleaned, frame.rec, frame.net))
       /\ frame' = NoFrame
       /\ pc' = "map"

\* a rejection of lines 340 and 353 that reports the code of line 236
ReturnRejection_AddressCode(text, code) ==
    /\ mapped' = Append(mapped, Result(Rejection(frame.rec, text, "HG_ADDRESS_FORMAT_ERROR"),
                                       frame.rec, frame.net))
    /\ frame' = NoFrame
    /\ pc' = "map"

\* a rejection returned after the record's schema calls
ReturnRejection(text, code) ==
    /\ mapped' = Append(mapped, Result(Rejection(frame.rec, text, code), frame.rec, frame.net))
    /\ frame' = NoFrame
    /\ pc' = "map"

\* lines 305-315: merge fields whose value is None are dropped
WithoutNone(merge_fields) ==
    [k \in {x \in DOMAIN merge_fields : merge_fields[x] /= None} |-> merge_fields[k]]

(***************************************************************************)
(* process_batch_record, lines 305-322: after the custom fields, the lists *)
(* of the record decide what follows.                                      *)
(***************************************************************************)
\* line 322 written as "if not self.groups_dict": an empty taxonomy is loaded again
NeedsGroupsFetch_WhenFalsy(groups, list) == ~Truthy(groups) /\ Truthy(list)

\* line 322: whether the group taxonomy is to be loaded now
NeedsGroupsFetch(groups, list) == groups = None /\ Truthy(list)

AfterCustomFields ==
    /\ pc = "custom"
    /\ custom_fields /= None
    /\ frame.i > Len(frame.record_custom_fields)
    /\ LET member_dict == [frame.member_dict EXCEPT
                              !.merge_fields = D(WithoutNone(frame.merge_fields))]
       IN IF ~Truthy(Get(frame.rec, "lists"))
          THEN ReturnMember(member_dict)
          ELSE /\ frame' = [frame EXCEPT !.member_dict = member_dict]
               /\ pc' = IF NeedsGroupsFetch(groups_dict, list_id) THEN "categories" ELSE "lists"
               /\ UNCHANGED <<external_ids_dict, mapped>>
    /\ UNCHANGED <<payload, config_list_name, list_id, custom_fields, groups_dict, latest_state,
                   batches, response, raised, ncalls, sent, env>>

(***************************************************************************)
(* process_batch_record, lines 324-326: the interest categories.  These    *)
(* call_api calls are made outside any try: an ApiClientError leaves as it *)
(* is.                                                                     *)
(***************************************************************************)
\* the exception a failed call_api of the groups code raises
GroupsCallError(status) == "ApiClientError"

FetchCategories ==
    /\ pc = "categories"
    /\ ncalls' = Called(<<"get_interest_categories", "", "">>)
    /\ \/ \E status \in Statuses :
            /\ Raise(GroupsCallError(status), "get_interest_categories", status)
            /\ UNCHANGED <<groups_dict, frame>>
       \/ \E group_titles \in CategoryResponses :
            LET titles == {group_titles[j].title : j \in 1..Len(group_titles)}
                IdOf(title) ==
                    group_titles[CHOOSE j \in 1..Len(group_titles) :
                                    group_titles[j].title = title].id
            IN /\ frame' = [frame EXCEPT
                               !.group_titles = group_titles,
                               !.group_names =
                                   [title \in titles |->
                                       [id |-> IdOf(title), group_names |-> EmptyDict]],
                               !.t = 1,
                               !.net = @ \cup {"get_interest_categories"}]
               /\ IF group_titles = <<>>
                  THEN /\ groups_dict' = D(EmptyDict)
                       /\ pc' = "lists"
                  ELSE /\ pc' = "interests"
                       /\ UNCHANGED groups_dict
               /\ UNCHANGED raised
    /\ UNCHANGED <<payload, config_list_name, list_id, custom_fields, external_ids_dict,
                   latest_state, batches, mapped, response, sent, env>>

(***************************************************************************)
(* process_batch_record, lines 328-332: the interests of one category;     *)
(* self.groups_dict is assigned after the last one.                        *)
(***************************************************************************)
\* self.groups_dict assigned inside the loop of lines 328-330, after each title
GroupsAfterInterests_Early(groups, group_names, last) == D(group_names)

\* line 332, after the loop: self.groups_dict once the interests of the last
\* title are fetched, untouched before
GroupsAfterInterests(groups, group_names, last) == IF last THEN D(group_names) ELSE groups

FetchInterests ==
    /\ pc = "interests"
    /\ LET title == frame.group_titles[frame.t].title
       IN /\ ncalls' = Called(<<"get_interests", title, "">>)
          /\ \/ \E status \in Statuses :
                  /\ Raise(GroupsCallError(status), "get_interests", status)
                  /\ UNCHANGED <<groups_dict, frame>>
             \/ \E interests \in InterestResponses(title) :
                  LET group_names ==
                          [frame.group_names EXCEPT ![title].group_names = interests]
                  IN /\ frame' = [frame EXCEPT
                                     !.group_names = group_names,
                                     !.t = @ + 1,
                                     !.net = @ \cup {"get_interests"}]
                     /\ groups_dict' = GroupsAfterInterests(groups_dict, group_names,
                                            frame.t = Len(frame.group_titles))
                     /\ pc' = IF frame.t = Len(frame.group_titles) THEN "lists" ELSE pc
                     /\ UNCHANGED raised
    /\ UNCHANGED <<payload, config_list_name, list_id, custom_fields, external_ids_dict,
                   latest_state, batches, mapped, response, sent, env>>

(***************************************************************************)
(* process_batch_record, lines 336-353: one item of the record's lists.    *)
(***************************************************************************)
\* line 349 caching a stale id instead of the id the provider answered
AfterCreateInterest_StaleId(groups, group_title, new_group_name) ==
    [groups EXCEPT ![group_title].group_names = Put(@, new_group_name.name, "i0")]

\* line 349: the taxonomy after create-interest answered new_group_name
AfterCreateInterest(groups, group_title, new_group_name) ==
    [groups EXCEPT ![group_title].group_names =
                        Put(@, new_group_name.name, new_group_name.id)]

ListItem ==
    /\ pc = "lists"
    /\ frame.l <= Len(Get(frame.rec, "lists").v)
    /\ LET list_name == Get(frame.rec, "lists").v[frame.l]
           parts == Split(list_name)
           group_title == parts[1]
           group_name == parts[2]
       IN IF Len(parts) /= 2
          THEN /\ ReturnRejection("List item format is incorrect or incomplete",
                                  "HG_LIST_ITEM_FORMAT_ERROR")
               /\ UNCHANGED <<groups_dict, raised, ncalls>>
          ELSE IF groups_dict = None
          THEN \* self.groups_dict.get on None
               /\ Raise("AttributeError", "groups_dict.get", 0)
               /\ UNCHANGED <<groups_dict, mapped, frame, ncalls>>
          ELSE IF group_title \notin DOMAIN groups_dict.v
          THEN /\ ReturnRejection("Group title not found in this account",
                                  "HG_GROUP_TITLE_NOT_FOUND")
               /\ UNCHANGED <<groups_dict, raised, ncalls>>
          ELSE IF group_name \in DOMAIN groups_dict.v[group_title].group_names
          THEN /\ frame' = [frame EXCEPT
                               !.l = @ + 1,
                               !.group_name_ids =
                                   Append(@, groups_dict.v[group_title].group_names[group_name])]
               /\ UNCHANGED <<pc, groups_dict, mapped, raised, ncalls>>
          ELSE /\ ncalls' = Called(<<"create_interest", group_title, group_name>>)
               /\ \/ \E status \in Statuses :
                       /\ Raise(GroupsCallError(status), "create_interest", status)
                       /\ UNCHANGED <<groups_dict, mapped, frame>>
                  \/ LET groups == AfterCreateInterest(groups_dict.v, group_title,
                                       [name |-> group_name,
                                        id |-> NewInterestId(group_title, group_name)])
                     IN /\ groups_dict' = D(groups)
                        /\ frame' = [frame EXCEPT
                                        !.l = @ + 1,
                                        !.group_name_ids =
                                            Append(@, groups[group_title].group_names[group_name]),
                                        !.net = @ \cup {"create_interest"}]
                        /\ UNCHANGED <<pc, mapped, raised>>
    /\ UNCHANGED <<payload, config_list_name, list_id, custom_fields, latest_state, batches,
                   response, sent, env, external_ids_dict>>

(***************************************************************************)
(* process_batch_record, lines 355-365: the interests of the member dict,  *)
(* then the return.                                                        *)
(***************************************************************************)
InterestsOf(group_name_ids) ==
    D([id \in Range(group_name_ids) |-> B(TRUE)])

ListsDone ==
    /\ pc = "lists"
    /\ frame.l > Len(Get(frame.rec, "lists").v)
    /\ ReturnMember(Put(frame.member_dict, "interests", InterestsOf(frame.group_name_ids)))
    /\ UNCHANGED <<payload, config_list_name, list_id, custom_fields, groups_dict, latest_state,
                   batches, response, raised, ncalls, sent, env>>

(***************************************************************************)
(* make_batch_request, called by process_batch with the member dicts of    *)
(* the batch once every record is mapped.                                  *)
(***************************************************************************)
\* lines 470-471
MapErrors(results) == SelectSeq(results, IsRejection)
IsMember(m) == ~IsRejection(m)
Records(results) == SelectSeq(results, IsMember)

\* the address as the provider echoes it
Echo(email_address, how) ==
    IF how = "upper" THEN Upper(email_address)
    ELSE IF how = "other" THEN "canonical@x.com"
    ELSE email_address

\* the entry of the response for the j-th member
Entry(member, j, shape) ==
    LET email_address == S(Echo(member.out.v.email_address.v, shape.echo))
        base == IF shape.kind = "errors"
                THEN [error |-> S("provider error"), error_code |-> S(shape.code)]
                ELSE [id |-> S(MemberId(j))]
    IN D(Put(base, "email_address", email_address))

\* the response of batch_list_members whose j-th member got an entry shapes[j]
BatchResponse(members, shapes) ==
    LET entries == [j \in 1..Len(members) |-> Entry(members[j], j, shapes[j])]
        Listed(kind) ==
            LET Of(j) == IF shapes[j].kind = kind THEN <<entries[j]>> ELSE <<>>
                F[j \in 0..Len(members)] == IF j = 0 THEN <<>> ELSE F[j - 1] \o Of(j)
            IN L(F[Len(members)])
    IN D([new_members |-> Listed("new_members"),
          updated_members |-> Listed("updated_members"),
          errors |-> Listed("errors")])

\* line 392 left out: a batch is dispatched whether or not a list id is known
NoListId_Never(list) == FALSE

\* line 392: no list id was resolved
NoListId(list) == list = None

\* line 393 left out: the upsert is called with no member at all
NothingToSend_Never(records) == FALSE

\* line 393: not records
NothingToSend(records) == records = <<>>

MakeBatchRequest ==
    /\ pc = "map"
    /\ Len(mapped) >= 1
    /\ LET records == Records(mapped)
       IN IF NoListId(list_id)
          THEN /\ Raise("Exception", "make_batch_request", 0)
               /\ UNCHANGED <<response, ncalls, sent>>
          ELSE IF NothingToSend(records)
          THEN /\ response' = D(EmptyDict)
               /\ pc' = "reconcile"
               /\ UNCHANGED <<raised, ncalls, sent>>
          ELSE /\ ncalls' = Called(<<"batch_list_members", "", "">>)
               /\ sent' = records
               /\ \/ \E status \in Statuses :
                       /\ Raise(handle_call_api_error(status, TRUE),
                                "batch_list_members", status)
                       /\ UNCHANGED response
                  \/ \E shapes \in [1..Len(records) -> EntryShapes] :
                       /\ response' = BatchResponse(records, shapes)
                       /\ pc' = "reconcile"
                       /\ UNCHANGED raised
    /\ UNCHANGED <<payload, config_list_name, list_id, custom_fields, groups_dict,
                   external_ids_dict, latest_state, batches, mapped, frame, env>>

(***************************************************************************)
(* handle_batch_response                                                   *)
(***************************************************************************)
\* d1.update(d2)
Update(d1, d2) == [k \in DOMAIN d1 \cup DOMAIN d2 |-> IF k \in DOMAIN d2 THEN d2[k] ELSE d1[k]]

\* self.external_ids_dict.get(entry.get("email_address", "").lower())
ExternalIdOf(index, entry) ==
    Get(index, Lower(GetDefault(entry.v, "email_address", S("")).v))

\* the error text composed of the entry's error, field and value
ErrorText(error) ==
    [t |-> "fstr", v |-> <<Get(error.v, "error"), Get(error.v, "field"), Get(error.v, "value")>>]

\* d, with the class of its error code when there is one
Classified(d, error) ==
    IF Truthy(classify_batch_error_or_false(error.v))
    THEN Update(d, classify_batch_error_or_false(error.v).v)
    ELSE d

\* lines 429-434
MemberState(index, member) ==
    D([success |-> B(TRUE), id |-> member.v.id, externalId |-> ExternalIdOf(index, member)])

\* lines 436-445
ErrorState(index, error) ==
    D(Classified([success |-> B(FALSE), error |-> ErrorText(error),
                  externalId |-> ExternalIdOf(index, error)], error))

\* lines 447-458
MapErrorState(map_error) ==
    D(Classified([success |-> B(FALSE), error |-> Get(map_error.v, "error"),
                  externalId |-> Get(map_error.v, "externalId")], map_error))

\* handle_batch_response without the loop of lines 447-458
handle_batch_response_NoMapErrors(index, resp, map_errors) ==
    LET members == GetDefault(resp.v, "new_members", L(<<>>)).v
                   \o GetDefault(resp.v, "updated_members", L(<<>>)).v
        errors == GetDefault(resp.v, "errors", L(<<>>)).v
    IN [j \in 1..Len(members) |-> MemberState(index, members[j])]
       \o [j \in 1..Len(errors) |-> ErrorState(index, errors[j])]

\* handle_batch_response without the loop of lines 436-445
handle_batch_response_NoErrors(index, resp, map_errors) ==
    LET members == GetDefault(resp.v, "new_members", L(<<>>)).v
                   \o GetDefault(resp.v, "updated_members", L(<<>>)).v
    IN [j \in 1..Len(members) |-> MemberState(index, members[j])]
       \o [j \in 1..Len(map_errors) |-> MapErrorState(map_errors[j].out)]

handle_batch_response(index, resp, map_errors) ==
    LET members == GetDefault(resp.v, "new_members", L(<<>>)).v
                   \o GetDefault(resp.v, "updated_members", L(<<>>)).v
        errors == GetDefault(resp.v, "errors", L(<<>>)).v
    IN [j \in 1..Len(members) |-> MemberState(index, members[j])]
       \o [j \in 1..Len(errors) |-> ErrorState(index, errors[j])]
       \o [j \in 1..Len(map_errors) |-> MapErrorState(map_errors[j].out)]

(***************************************************************************)
(* process_batch, lines 475-478: the state updates of the response and of  *)
(* the map errors are folded into the state, and the cycle is over.        *)
(***************************************************************************)
HandleBatchResponse ==
    /\ pc = "reconcile"
    /\ latest_state' = latest_state
                       \o handle_batch_response(external_ids_dict, response, MapErrors(mapped))
    /\ pc' = "idle"
    /\ UNCHANGED <<payload, config_list_name, list_id, custom_fields, groups_dict,
                   external_ids_dict, batches, mapped, frame, response, raised,
                   ncalls, sent, env>>

Next ==
    \/ StartBatch
    \/ MapRecord
    \/ FetchMergeFields
    \/ CustomField
    \/ AfterCustomFields
    \/ FetchCategories
    \/ FetchInterests
    \/ ListItem
    \/ ListsDone
    \/ MakeBatchRequest
    \/ HandleBatchResponse

Spec == Init /\ [][Next]_vars

(***************************************************************************)
(* clean_convert on its own: applied to a payload of nested dicts, lists   *)
(* and scalars, and applied again to its result.                           *)
(***************************************************************************)
\* items of a list value
MaxListLen == 2

Scalars == {None, I(0), I(7), S(""), S("x"), B(FALSE), B(TRUE)}

ListsOver(V) == UNION {[1..n -> V] : n \in 0..MaxListLen}

\* values one level deep
Shallow ==
    Scalars
    \cup {L(s) : s \in ListsOver({None, I(0), S("x")})}
    \cup {D([c |-> v]) : v \in Scalars}
    \cup {D(EmptyDict)}

\* values two and three levels deep
Nested ==
    {L(<<v>>) : v \in {D([c |-> None]), D([c |-> I(0)]), D(EmptyDict), L(<<None>>), L(<<>>)}}
    \cup {D([c |-> v]) : v \in {D([c |-> None]), D([c |-> S("")]), L(<<D([c |-> None])>>),
                                L(<<L(<<None>>)>>)}}

Values == Shallow \cup Nested

Payloads ==
    Values
    \cup {D([a |-> v]) : v \in Values}
    \cup {D([a |-> v, b |-> w]) : v \in Values, w \in Values}

CleanInit ==
    /\ pc = "payload"
    /\ payload \in Payloads
    /\ config_list_name = None
    /\ list_id = None
    /\ custom_fields = None
    /\ groups_dict = None
    /\ external_ids_dict = EmptyDict
    /\ latest_state = <<>>
    /\ batches = 0
    /\ mapped = <<>>
    /\ frame = NoFrame
    /\ response = None
    /\ raised = None
    /\ ncalls = [k \in CallKeys |-> 0]
    /\ sent = <<>>
    /\ env = [supplied |-> 0, listed |-> None, echoed |-> TRUE, refs |-> {}, lists |-> None,
              limit |-> MaxRecords]

\* clean_convert(payload)
CleanConvert ==
    /\ pc = "payload"
    /\ payload' = clean_convert(payload)
    /\ pc' = "cleaned"
    /\ UNCHANGED <<config_list_name, list_id, custom_fields, groups_dict,
                   external_ids_dict, latest_state, batches, mapped, frame, response,
                   raised, ncalls, sent, env>>

\* clean_convert applied to what clean_convert returned
CleanAgain ==
    /\ pc = "cleaned"
    /\ payload' = clean_convert(payload)
    /\ pc' = "recleaned"
    /\ UNCHANGED <<config_list_name, list_id, custom_fields, groups_dict,
                   external_ids_dict, latest_state, batches, mapped, frame, response,
                   raised, ncalls, sent, env>>

CleanNext ==
    \/ CleanConvert
    \/ CleanAgain

CleanSpec == CleanInit /\ [][CleanNext]_vars

(***************************************************************************)
(* The orchestrator's splitting: one upstream batch of env.limit records   *)
(* is handed to the sink in sub-batches of max_size records (MaxBatchLen   *)
(* here), the last one holding what is left.  The records are plain ones:  *)
(* valid without custom fields and lists, or rejected for their email.     *)
(***************************************************************************)
\* records of the upstream batch
MaxUpstream == 3

PlainRecords ==
    {Rec(Absent, Absent, Absent, Absent, Absent, Absent),
     Rec(None, S(" a@x.com "), Absent, Absent, Absent, Absent),
     Rec(S("b@x.com"), Absent, S("ext2"), L(<<FullAddress>>), Absent, Absent)}

SplitInit ==
    /\ pc = "idle"
    /\ config_list_name \in ListNames
    /\ list_id = None
    /\ custom_fields = None
    /\ groups_dict = None
    /\ external_ids_dict = EmptyDict
    /\ latest_state = <<>>
    /\ batches = 0
    /\ mapped = <<>>
    /\ frame = NoFrame
    /\ response = None
    /\ raised = None
    /\ ncalls = [k \in CallKeys |-> 0]
    /\ sent = <<>>
    /\ env \in {[supplied |-> 0, listed |-> None, echoed |-> TRUE, refs |-> {}, lists |-> None,
                 limit |-> n] : n \in 1..MaxUpstream}
    /\ payload = None

\* the sub-batch being filled holds max_size records, or the upstream batch
\* has no record left
SubBatchComplete == Len(mapped) = MaxBatchLen \/ env.supplied = env.limit

\* process_batch_record for the next record of the upstream batch
SplitMapRecord ==
    /\ MapRecord
    /\ (IF pc' = "custom" THEN frame'.rec ELSE mapped'[Len(mapped')].rec) \in PlainRecords

\* make_batch_request for a complete sub-batch
SplitMakeBatchRequest ==
    /\ SubBatchComplete
    /\ MakeBatchRequest

SplitNext ==
    \/ StartBatch
    \/ SplitMapRecord
    \/ FetchMergeFields
    \/ AfterCustomFields
    \/ SplitMakeBatchRequest
    \/ HandleBatchResponse

SplitSpec == SplitInit /\ [][SplitNext]_vars

(***************************************************************************)
(* Properties.                                                             *)
(***************************************************************************)
\* the custom fields of a record, as handle_custom_fields receives them
CustomFieldsOf(record) == GetDefault(record, "custom_fields", L(<<>>)).v

\* a custom field of the shape {name, value}
WellFormed(field) == field.t = "dict"

NameOf(field) == Get(field.v, "name").v

\* the cache resolves name
Resolvable(cache, name) == name \in Range(cache) \/ name \in DOMAIN cache

\* the tag the cache resolves name to
ResolvedTag(cache, name) == IF name \in Range(cache) THEN name ELSE cache[name]

\* both email keys of the record are missing, null, or empty once trimmed
NoEmail(record) ==
    \A key \in {"email_address", "email"} :
        Get(record, key) = None \/ Strip(Get(record, key).v) = ""

CodeOf(m) == Get(m.out.v, "error_code").v

\* C1: every well-formed custom field with a non-null value of a record that
\* mapped successfully is in the payload's merge_fields under the tag its name
\* resolves to (the last field, when several resolve to one tag), whether the
\* name was a tag, a field name, or provisioned during this mapping.
C1_CustomFieldsMerged ==
    \A j \in 1..Len(mapped) :
        LET m == mapped[j]
            fields == CustomFieldsOf(m.rec)
            Counts(k) == /\ WellFormed(fields[k])
                         /\ Get(fields[k].v, "value") /= None
                         /\ Resolvable(custom_fields.v, NameOf(fields[k]))
        IN (~IsRejection(m) /\ custom_fields /= None) =>
           \A k \in 1..Len(fields) :
               (/\ Counts(k)
                /\ \A k2 \in (k + 1)..Len(fields) :
                       Counts(k2) => ResolvedTag(custom_fields.v, NameOf(fields[k2]))
                                     /= ResolvedTag(custom_fields.v, NameOf(fields[k])))
               => LET tag == ResolvedTag(custom_fields.v, NameOf(fields[k]))
                  IN /\ tag \in DOMAIN m.out.v.merge_fields.v
                     /\ m.out.v.merge_fields.v[tag] = Get(fields[k].v, "value")

\* a merge field the provider listed when the cache was loaded
Listed(name) == env.listed /= None /\ Resolvable(env.listed.v, name)

\* C2: as long as the provider echoes the requested names, a custom field
\* name that is a listed tag or field name causes no add-merge-field call,
\* and a brand-new name causes exactly one in the whole run once it has been
\* referenced (none before).
C2_ProvisionedOnce ==
    env.echoed =>
        \A name \in FieldNames :
            ncalls[<<"add_list_merge_field", name, "">>] =
                IF name \in env.refs /\ ~Listed(name) THEN 1 ELSE 0

\* C2 witness: in a second batch a record was mapped whose custom field New
\* had been provisioned in the first batch, with no further call.
C2_Witness ==
    /\ batches = 2
    /\ env.echoed
    /\ ncalls[<<"add_list_merge_field", "New", "">>] = 1
    /\ Len(mapped) = 1
    /\ ~IsRejection(mapped[1])
    /\ \E k \in 1..Len(CustomFieldsOf(mapped[1].rec)) :
           /\ WellFormed(CustomFieldsOf(mapped[1].rec)[k])
           /\ NameOf(CustomFieldsOf(mapped[1].rec)[k]) = "New"
    /\ "add_list_merge_field" \notin mapped[1].net

\* C3: a record without an email is rejected with HG_EMAIL_REQUIRED, no
\* provider call is made while it is mapped, and it is not among the members
\* of the batch upsert.
C3_EmailRequired ==
    /\ \A j \in 1..Len(mapped) :
           NoEmail(mapped[j].rec) =>
               /\ IsRejection(mapped[j])
               /\ CodeOf(mapped[j]) = "HG_EMAIL_REQUIRED"
               /\ mapped[j].net = {}
    /\ \A j \in 1..Len(sent) : ~NoEmail(sent[j].rec)
    /\ (frame /= NoFrame => ~NoEmail(frame.rec))

\* C3 witness: a batch whose upsert was sent while a record with a
\* whitespace-only email was rejected.
C3_Witness ==
    /\ pc = "reconcile"
    /\ sent /= <<>>
    /\ \E j \in 1..Len(mapped) :
           /\ mapped[j].rec.email_address = S("  ")
           /\ CodeOf(mapped[j]) = "HG_EMAIL_REQUIRED"

\* the step that folds the outcomes of a cycle, and the outcomes it folds
Folding == pc = "reconcile" /\ pc' = "idle"
Folded == SubSeq(latest_state', Len(latest_state) + 1, Len(latest_state'))

MembersOf(resp) ==
    GetDefault(resp.v, "new_members", L(<<>>)).v
    \o GetDefault(resp.v, "updated_members", L(<<>>)).v
ErrorsOf(resp) == GetDefault(resp.v, "errors", L(<<>>)).v

\* the key of the ExternalIdIndex for an entry of the response
KeyOf(entry) == Lower(GetDefault(entry.v, "email_address", S("")).v)

\* C4: every created or updated member of the response yields a success
\* outcome with the provider's id and the externalId indexed under the
\* lowercased email, or the email itself when it is not indexed.
C4_MemberOutcomes ==
    [][Folding =>
        \A j \in 1..Len(MembersOf(response)) :
            LET member == MembersOf(response)[j]
            IN /\ Folded[j].v.success = B(TRUE)
               /\ Folded[j].v.id = member.v.id
               /\ Folded[j].v.externalId =
                      IF KeyOf(member) \in DOMAIN external_ids_dict
                      THEN external_ids_dict[KeyOf(member)]
                      ELSE member.v.email_address]_vars

\* C5: every error of the response yields a failure outcome with the
\* externalId indexed under the lowercased email (not null when that email
\* was mapped in this run), and with hg_error_class = InvalidPayloadError
\* exactly when its error_code is a recognized one.
C5_ErrorOutcomes ==
    [][Folding =>
        \A j \in 1..Len(ErrorsOf(response)) :
            LET error == ErrorsOf(response)[j]
                state == Folded[Len(MembersOf(response)) + j].v
            IN /\ state.success = B(FALSE)
               /\ state.externalId = Get(external_ids_dict, KeyOf(error))
               /\ (KeyOf(error) \in DOMAIN external_ids_dict => state.externalId /= None)
               /\ ("hg_error_class" \in DOMAIN state
                     <=> Get(error.v, "error_code").v \in RecognizedCodes)
               /\ ("hg_error_class" \in DOMAIN state
                     => state.hg_error_class = S("InvalidPayloadError"))]_vars

\* C6: a batch upsert that fails with status 502 surfaces a retriable error.
C6_Upsert502Retriable ==
    (raised /= None /\ raised.call = "batch_list_members" /\ raised.status = 502)
        => raised.kind = "RetriableAPIError"

SchemaCalls ==
    {"get_list_merge_fields", "add_list_merge_field", "get_interest_categories",
     "get_interests", "create_interest"}

\* C7: a failed schema call of the mapping surfaces as InvalidCredentialsError
\* for status 401 or 403 and as InvalidPayloadError for status 400, whichever
\* of the five calls it is.
C7_SchemaCallsClassified ==
    (raised /= None /\ raised.call \in SchemaCalls) =>
        /\ (raised.status \in {401, 403} => raised.kind = "InvalidCredentialsError")
        /\ (raised.status = 400 => raised.kind = "InvalidPayloadError")

\* C8 as claimed: whatever its code, a rejection is returned before any
\* provider call was made for the record.
C8_RejectedBeforeAnyCall ==
    \A j \in 1..Len(mapped) : IsRejection(mapped[j]) => mapped[j].net = {}

\* C8: a rejection with HG_EMAIL_REQUIRED or HG_ADDRESS_FORMAT_ERROR is
\* returned before any provider call was made for the record.
C8_EarlyRejectionsLocal ==
    \A j \in 1..Len(mapped) :
        (IsRejection(mapped[j])
         /\ CodeOf(mapped[j]) \in {"HG_EMAIL_REQUIRED", "HG_ADDRESS_FORMAT_ERROR"})
        => mapped[j].net = {}

\* C8 witness: a record with custom fields and lists was rejected for its
\* addresses while the merge fields had never been fetched, and the next
\* record of the batch was rejected after its schema calls.
C8_Witness ==
    /\ Len(mapped) = 2
    /\ IsRejection(mapped[1])
    /\ CodeOf(mapped[1]) = "HG_ADDRESS_FORMAT_ERROR"
    /\ Truthy(Get(mapped[1].rec, "custom_fields"))
    /\ IsRejection(mapped[2])
    /\ CodeOf(mapped[2]) = "HG_GROUP_TITLE_NOT_FOUND"
    /\ mapped[2].net /= {}

\* the outcomes folded for the cycle that has just ended
CycleOutcomes ==
    IF pc = "idle" /\ response /= None
    THEN LET n == Len(MembersOf(response)) + Len(ErrorsOf(response)) + Len(MapErrors(mapped))
         IN SubSeq(latest_state, Len(latest_state) - n + 1, Len(latest_state))
    ELSE <<>>

\* the failure outcome of a rejection
ReportsRejection(state, m) ==
    /\ state.v.success = B(FALSE)
    /\ "id" \notin DOMAIN state.v
    /\ state.v.error = m.out.v.error
    /\ state.v.externalId = Get(m.rec, "externalId")

\* C9 as claimed: once a batch cycle is over, however its dispatch went, every
\* record rejected in it has a failure outcome.
C9_RejectionsAlwaysReported ==
    ((pc = "idle" /\ batches > 0) \/ (pc = "failed" /\ raised.call = "batch_list_members"))
        => \A j \in 1..Len(mapped) :
               IsRejection(mapped[j]) =>
                   \E k \in 1..Len(CycleOutcomes) : ReportsRejection(CycleOutcomes[k], mapped[j])

\* C9: in every batch cycle whose make_batch_request returns, the members
\* sent are exactly the records that were not rejected, and the outcomes
\* folded are those of the response followed by exactly one failure outcome
\* per rejected record, in order, whatever the response says of the siblings.
C9_RejectionsReported ==
    [][Folding =>
        LET map_errors == MapErrors(mapped)
            n == Len(MembersOf(response)) + Len(ErrorsOf(response))
        IN /\ Len(Folded) = n + Len(map_errors)
           /\ \A j \in 1..Len(map_errors) : ReportsRejection(Folded[n + j], map_errors[j])
           /\ \A j \in 1..n : "id" \in DOMAIN Folded[j].v \/ Folded[j].v.error.t = "fstr"
           /\ sent = Records(mapped)
           /\ \A j \in 1..Len(sent) : ~IsRejection(sent[j])]_vars

\* C9 witness: a cycle is over in which one record was rejected and reported
\* and its sibling was sent and refused by the provider.
C9_Witness ==
    /\ pc = "idle"
    /\ Len(mapped) = 2
    /\ IsRejection(mapped[1])
    /\ Len(sent) = 1
    /\ Len(ErrorsOf(response)) = 1
    /\ Len(CycleOutcomes) = 2
    /\ ReportsRejection(CycleOutcomes[2], mapped[1])

\* C10: the interest categories, the interests of each category and the
\* merge fields are each fetched at most once in a run, and not at all once
\* their cache is set.
C10_FetchedOnce ==
    /\ ncalls[<<"get_interest_categories", "", "">>] <= 1
    /\ \A title \in Titles : ncalls[<<"get_interests", title, "">>] <= 1
    /\ ncalls[<<"get_list_merge_fields", "", "">>] <= 1
    /\ (pc \in {"categories", "interests"} => groups_dict = None)

\* C10 witness: the taxonomy fetched in the first batch was empty, and a
\* record with lists was mapped in the second batch without another fetch.
C10_Witness ==
    /\ batches = 2
    /\ list_id /= None
    /\ groups_dict = D(EmptyDict)
    /\ ncalls[<<"get_interest_categories", "", "">>] = 1
    /\ ncalls[<<"get_list_merge_fields", "", "">>] = 1
    /\ Len(mapped) = 1
    /\ Truthy(Get(mapped[1].rec, "lists"))
    /\ mapped[1].net = {}

\* the step in which process_batch_record returns, and what it returns
Returning == Len(mapped') = Len(mapped) + 1
Returned == mapped'[Len(mapped')]

\* an externalId was supplied with the record
Supplied(record) == Get(record, "externalId") /= None

\* C11: when process_batch_record returns a payload, the index maps the
\* lowercased trimmed email to the record's externalId when one is supplied
\* and to the trimmed email otherwise, as of the very step of the return.
C11_ExternalIdIndexed ==
    [][(Returning /\ ~IsRejection(Returned)) =>
        LET record == Returned.rec
            email == get_email_if_exists(record)
        IN /\ Lower(email.v) \in DOMAIN external_ids_dict'
           /\ external_ids_dict'[Lower(email.v)] =
                  IF Supplied(record) THEN Get(record, "externalId") ELSE email]_vars

\* the items of a record's lists, and the parts of an item
ListsOf(record) == GetDefault(record, "lists", L(<<>>)).v
TitleOf(item) == Split(item)[1]
GroupNameOf(item) == Split(item)[2]

\* the step that handles the item frame.l of the record being mapped, the
\* taxonomy being cached
HandlingItem ==
    /\ pc = "lists"
    /\ groups_dict /= None
    /\ frame.l <= Len(ListsOf(frame.rec))
    /\ Len(Split(ListsOf(frame.rec)[frame.l])) = 2

CreateCalls == {k \in CallKeys : k[1] = "create_interest"}

\* C12: for an item title/name of a record, the taxonomy being cached: an
\* unknown title rejects the record with HG_GROUP_TITLE_NOT_FOUND and no
\* create-interest call is made; a known title with an unknown name makes
\* exactly one create-interest call, whose id is cached under the title; a
\* name the cache holds makes no call, so that no title/name is ever created
\* twice or created when the provider listed it; and the interests of every
\* payload map the cached id of each of its items to true.
C12_InterestProvisioning ==
    /\ [][HandlingItem =>
            LET item == ListsOf(frame.rec)[frame.l]
                title == TitleOf(item)
                name == GroupNameOf(item)
                key == <<"create_interest", title, name>>
            IN IF title \notin DOMAIN groups_dict.v
               THEN /\ Returning /\ IsRejection(Returned)
                    /\ CodeOf(Returned) = "HG_GROUP_TITLE_NOT_FOUND"
                    /\ ncalls' = ncalls
               ELSE IF name \notin DOMAIN groups_dict.v[title].group_names
               THEN /\ ncalls' = [ncalls EXCEPT ![key] = @ + 1]
                    /\ (pc' /= "failed" =>
                          /\ name \in DOMAIN groups_dict'.v[title].group_names
                          /\ groups_dict'.v[title].group_names[name] = NewInterestId(title, name)
                          /\ frame'.group_name_ids =
                                 Append(frame.group_name_ids, NewInterestId(title, name)))
               ELSE /\ ncalls' = ncalls
                    /\ groups_dict' = groups_dict]_vars
    /\ [](\A key \in CreateCalls :
            /\ ncalls[key] <= 1
            /\ (ncalls[key] = 1 /\ pc /= "failed") =>
                   groups_dict.v[key[2]].group_names[key[3]] = NewInterestId(key[2], key[3]))
    /\ [](\A j \in 1..Len(mapped) :
            (~IsRejection(mapped[j]) /\ Truthy(Get(mapped[j].rec, "lists")) /\ groups_dict /= None) =>
                \A k \in 1..Len(ListsOf(mapped[j].rec)) :
                    LET item == ListsOf(mapped[j].rec)[k]
                        id == groups_dict.v[TitleOf(item)].group_names[GroupNameOf(item)]
                    IN /\ id \in DOMAIN mapped[j].out.v.interests.v
                       /\ mapped[j].out.v.interests.v[id] = B(TRUE))

\* C12 witness: an interest created in the first batch is referenced again by
\* a record of the second batch, whose payload carries the cached id and for
\* which no create-interest call was made.
C12_Witness ==
    /\ batches = 2
    /\ Len(mapped) = 1
    /\ ~IsRejection(mapped[1])
    /\ ItemNewName \in Range(ListsOf(mapped[1].rec))
    /\ ncalls[<<"create_interest", "VIP", "Silver">>] = 1
    /\ "create_interest" \notin mapped[1].net
    /\ mapped[1].out.v.interests.v = [x \in {"i2"} |-> B(TRUE)]

\* the step of make_batch_request
Dispatching == pc = "map" /\ pc' \in {"reconcile", "failed"}

\* C13: as long as no list id is resolved, no batch upsert call is made and
\* no outcome is folded, and make_batch_request raises whatever the batch
\* holds, valid payloads or none, so that the cycle never reaches its
\* reconciliation.
C13_NoListIdIsFatal ==
    /\ []((batches > 0 /\ list_id = None) =>
            /\ pc \notin {"reconcile", "idle"}
            /\ ncalls[<<"batch_list_members", "", "">>] = 0
            /\ sent = <<>>
            /\ latest_state = <<>>)
    /\ [][(Dispatching /\ list_id = None) =>
            /\ pc' = "failed"
            /\ raised'.kind = "Exception"
            /\ raised'.call = "make_batch_request"
            /\ ncalls' = ncalls
            /\ latest_state' = latest_state]_vars

\* C13 witness: list_name matched no list, and make_batch_request raised for
\* a batch of rejected records only.
C13_Witness ==
    /\ pc = "failed"
    /\ raised.call = "make_batch_request"
    /\ config_list_name = S("Other")
    /\ env.supplied = 2
    /\ Len(mapped) = 2
    /\ Records(mapped) = <<>>
    /\ latest_state = <<>>

\* latest_state is extended at its end, or left as it is
Extended == /\ Len(latest_state') >= Len(latest_state)
            /\ SubSeq(latest_state', 1, Len(latest_state)) = latest_state

\* C14: a batch upsert that fails folds no outcome for its batch and leaves
\* the outcomes of the earlier batches as they are: the state changes only
\* in the reconciliation of a batch whose dispatch returned, and only at its
\* end; a 400 of the upsert leaves as InvalidPayloadError, a 401 or 403 as
\* InvalidCredentialsError, any other status as a plain Exception.
C14_SubBatchAtomic ==
    /\ [][/\ Extended
          /\ (latest_state' /= latest_state => Folding)
          /\ ((Dispatching /\ pc' = "failed") =>
                 /\ latest_state' = latest_state
                 /\ response' = None)
          /\ (pc = "failed" => latest_state' = latest_state)]_vars
    /\ []((raised /= None /\ raised.call = "batch_list_members") =>
            /\ pc = "failed"
            /\ raised.kind = CASE raised.status = 400 -> "InvalidPayloadError"
                               [] raised.status \in {401, 403} -> "InvalidCredentialsError"
                               [] OTHER -> "Exception")

\* C14 witness: the upsert of the second batch failed with status 400 while
\* the outcomes of the first batch are in the state.
C14_Witness ==
    /\ pc = "failed"
    /\ batches = 2
    /\ raised.call = "batch_list_members"
    /\ raised.status = 400
    /\ Len(latest_state) = 1
    /\ Len(mapped) = 1

\* addresses is a non-empty list whose first address lacks, or has empty, one
\* of line1, city, state and postalCode/postal_code
PartialFirst(record) ==
    LET addresses == Get(record, "addresses")
    IN /\ addresses.t = "list"
       /\ Len(addresses.v) > 0
       /\ addresses.v[1].t = "dict"
       /\ \/ ~Truthy(Get(addresses.v[1].v, "line1"))
          \/ ~Truthy(Get(addresses.v[1].v, "city"))
          \/ ~Truthy(Get(addresses.v[1].v, "state"))
          \/ ~Truthy(GetDefault(addresses.v[1].v, "postalCode",
                                Get(addresses.v[1].v, "postal_code")))

ListCodes == {"HG_LIST_ITEM_FORMAT_ERROR", "HG_GROUP_TITLE_NOT_FOUND"}

\* C15: a record with an email whose first address is incomplete is not
\* rejected for it (a rejection, if any, is one of its lists); its payload
\* has no ADDRESS merge field, and location.country_code and location.region
\* are the country and the state of the first address when these are present.
C15_PartialAddress ==
    \A j \in 1..Len(mapped) :
        LET m == mapped[j]
            first == Get(m.rec, "addresses").v[1].v
        IN (PartialFirst(m.rec) /\ ~NoEmail(m.rec)) =>
              IF IsRejection(m)
              THEN CodeOf(m) \in ListCodes /\ Truthy(Get(m.rec, "lists"))
              ELSE /\ "ADDRESS" \notin DOMAIN m.out.v.merge_fields.v
                   /\ (Truthy(Get(first, "country")) =>
                          Get(m.out.v.location.v, "country_code") = Get(first, "country"))
                   /\ (Truthy(Get(first, "state")) =>
                          Get(m.out.v.location.v, "region") = Get(first, "state"))

\* C15 witness: the record whose address has no city and no postal code was
\* mapped, and its payload is located in US / IL.
C15_Witness ==
    \E j \in 1..Len(mapped) :
        /\ Get(mapped[j].rec, "addresses") = L(<<PartialAddress>>)
        /\ ~IsRejection(mapped[j])
        /\ mapped[j].out.v.location.v.country_code = S("US")
        /\ mapped[j].out.v.location.v.region = S("IL")
        /\ DOMAIN mapped[j].out.v.merge_fields.v = {"FNAME", "LNAME"}

\* in the result out of cleaning the dict in, every key whose value is 0, ""
\* or False is kept with that value, and every key whose value is None or
\* cleans to an empty dict is gone; so it is in the dicts below in
RECURSIVE KeysPruned(_, _)
KeysPruned(in, out) ==
    \A k \in DOMAIN in.v :
        LET v == in.v[k]
        IN /\ InAllowedValues(v) => (k \in DOMAIN out.v /\ out.v[k] = v)
           /\ (v = None \/ clean_convert(v) = D(EmptyDict)) => k \notin DOMAIN out.v
           /\ (v.t = "dict" /\ k \in DOMAIN out.v) =>
                  (out.v[k].t = "dict" /\ KeysPruned(v, out.v[k]))

\* C16: clean_convert applied to its own result returns it unchanged, and
\* the result of cleaning a dict keeps every key whose value is 0, "" or
\* False and has no key whose value was None or cleaned to an empty dict.
C16_CleanConvertIdempotent ==
    [][/\ (pc = "cleaned" => payload' = payload)
       /\ ((pc = "payload" /\ payload.t = "dict") =>
              (payload'.t = "dict" /\ KeysPruned(payload, payload')))]_vars

\* C16 witness: a dict was cleaned twice and is left with the key that holds
\* an empty string.
C16_Witness ==
    /\ pc = "recleaned"
    /\ payload = D([a |-> S("")])

\* the number of "/" in a list item
Slashes(item) == Cardinality({i \in 1..Len(item) : item[i] = "/"})

\* the record has an email and acceptable addresses, the item k of its lists
\* has not exactly one "/", and the items before k have one each and a title
\* of the taxonomy
MalformedAt(record, k) ==
    /\ ~NoEmail(record)
    /\ ~(Truthy(Get(record, "addresses")) /\ Get(record, "addresses").t /= "list")
    /\ k \in 1..Len(ListsOf(record))
    /\ Slashes(ListsOf(record)[k]) /= 1
    /\ \A i \in 1..(k - 1) :
           /\ Slashes(ListsOf(record)[i]) = 1
           /\ groups_dict /= None
           /\ ListsOf(record)[i][1] \in DOMAIN groups_dict.v

\* C17: a record with an email one of whose list items has not exactly one
\* "/", the items before it resolving, is rejected with
\* HG_LIST_ITEM_FORMAT_ERROR: what is returned for it is the rejection (no
\* payload, no interests), it is not among the members sent, and the return
\* of a rejection leaves the ExternalIdIndex as it is.
C17_ListItemFormat ==
    /\ [](\A j \in 1..Len(mapped) :
            (\E k \in 1..Len(ListsOf(mapped[j].rec)) : MalformedAt(mapped[j].rec, k)) =>
                /\ IsRejection(mapped[j])
                /\ CodeOf(mapped[j]) = "HG_LIST_ITEM_FORMAT_ERROR"
                /\ "interests" \notin DOMAIN mapped[j].out.v
                /\ \A i \in 1..Len(sent) : sent[i] /= mapped[j])
    /\ [][(Returning /\ IsRejection(Returned)) =>
              external_ids_dict' = external_ids_dict]_vars

\* C17 witness: a record whose second list item has two "/" was rejected
\* after an interest was created for its first item, its valid sibling was
\* sent, and the index holds the sibling only.
C17_Witness ==
    /\ pc = "reconcile"
    /\ Len(mapped) = 2
    /\ ListsOf(mapped[2].rec) = <<ItemNewName, ItemTwoSlashes>>
    /\ CodeOf(mapped[2]) = "HG_LIST_ITEM_FORMAT_ERROR"
    /\ "create_interest" \in mapped[2].net
    /\ Len(sent) = 1
    /\ DOMAIN external_ids_dict = {"a@x.com"}

\* the lists the provider returned whose name is name, letter case ignored
Matching(rows, name) ==
    {i \in 1..Len(rows) : LowerName(rows[i].name) = LowerName(name.v)}

\* the least element of a non-empty set of numbers
Least(set) == CHOOSE i \in set : \A j \in set : i <= j

\* C18: after the lists were fetched, list_id is the id of the first list
\* returned when list_name is absent or empty, the id of the first list whose
\* name is list_name ignoring letter case when list_name is set, and None when
\* there is no such list; once a list id is resolved it never changes and
\* get_all_lists is not called again.
C18_ListResolution ==
    /\ [](env.lists /= None =>
            LET rows == env.lists.v
            IN list_id =
                 IF config_list_name = None \/ config_list_name = S("")
                 THEN IF rows = <<>> THEN None ELSE S(rows[1].id)
                 ELSE IF Matching(rows, config_list_name) = {} THEN None
                 ELSE S(rows[Least(Matching(rows, config_list_name))].id))
    /\ [][list_id /= None =>
            /\ list_id' = list_id
            /\ ncalls'[<<"get_all_lists", "", "">>] = ncalls[<<"get_all_lists", "", "">>]]_vars
    /\ [](list_id /= None => ncalls[<<"get_all_lists", "", "">>] = 1)

\* C18 witness: list_name NEWS resolved to the second list returned, and a
\* second batch started without another call of the list endpoint.
C18_Witness ==
    /\ batches = 2
    /\ pc = "map"
    /\ config_list_name = S("NEWS")
    /\ list_id = S("L2")
    /\ ncalls[<<"get_all_lists", "", "">>] = 1

\* how many of the outcomes satisfy P
Count(outcomes, P(_)) == Cardinality({j \in 1..Len(outcomes) : P(outcomes[j])})

IsSuccess(state) == state.v.success = B(TRUE)
IsProviderError(state) == state.v.success = B(FALSE) /\ state.v.error.t = "fstr"
IsMapError(state) == state.v.success = B(FALSE) /\ state.v.error.t /= "fstr"

\* the response holds one entry for each member sent
OneEntryEach(resp, members) == Len(MembersOf(resp)) + Len(ErrorsOf(resp)) = Len(members)

\* C19: when make_batch_request returned and the response holds one entry
\* for each payload sent, the outcomes folded are as many as the records of
\* the batch: one success per member of the response, one failure per error
\* of the response and one failure per rejected record.
C19_OneOutcomePerRecord ==
    [][(Folding /\ OneEntryEach(response, sent)) =>
          /\ Len(Folded) = Len(mapped)
          /\ Count(Folded, IsSuccess) = Len(MembersOf(response))
          /\ Count(Folded, IsProviderError) = Len(ErrorsOf(response))
          /\ Count(Folded, IsMapError) = Len(MapErrors(mapped))
          /\ Len(sent) + Len(MapErrors(mapped)) = Len(mapped)]_vars

\* C19 witness: a batch of two valid records was sent, the response listed
\* one as a new member and one as an error, and two outcomes were folded.
C19_Witness ==
    /\ pc = "idle"
    /\ Len(mapped) = 2
    /\ Len(sent) = 2
    /\ Len(MembersOf(response)) = 1
    /\ Len(ErrorsOf(response)) = 1
    /\ Len(latest_state) = 2
    /\ IsSuccess(latest_state[1])
    /\ IsProviderError(latest_state[2])

\* the least number of sub-batches of m records that hold n records
Ceil(n, m) == (n + m - 1) \div m

\* the outcomes of the k-th sub-batch of an upstream batch of n records
SubBatchOutcomes(k, n) ==
    SubSeq(latest_state, (k - 1) * MaxBatchLen + 1,
           IF k * MaxBatchLen < n THEN k * MaxBatchLen ELSE n)

\* the sub-batches that held a valid record
WithValidRecord(n) ==
    {k \in 1..Ceil(n, MaxBatchLen) :
        \E j \in 1..Len(SubBatchOutcomes(k, n)) : ~IsMapError(SubBatchOutcomes(k, n)[j])}

\* the upstream batch has been handed over and reconciled
UpstreamDone == pc = "idle" /\ batches > 0 /\ env.supplied = env.limit

\* C20: no batch upsert call carries more than max_size members; a sub-batch
\* is started only when the one before is reconciled; once an upstream batch
\* of N records is through, it has been handled in ceil(N / max_size)
\* sub-batches, with one upsert call for each sub-batch that held a valid
\* record (ceil(N / max_size) calls when each did) and none for a sub-batch
\* whose records were all rejected.
C20_SubBatchCalls ==
    /\ [](Len(sent) <= MaxBatchLen /\ Len(mapped) <= MaxBatchLen)
    /\ [][batches' /= batches => (pc = "idle" /\ batches' = batches + 1)]_vars
    /\ [][Dispatching =>
            ncalls'[<<"batch_list_members", "", "">>] =
                ncalls[<<"batch_list_members", "", "">>]
                + (IF list_id /= None /\ Records(mapped) /= <<>> THEN 1 ELSE 0)]_vars
    /\ [](UpstreamDone =>
            /\ batches = Ceil(env.limit, MaxBatchLen)
            /\ Len(latest_state) = env.limit
            /\ ncalls[<<"batch_list_members", "", "">>] = Cardinality(WithValidRecord(env.limit)))

\* C20 witness: an upstream batch of three records, each sub-batch holding a
\* valid record, went through in two sub-batches and two upsert calls.
C20_Witness ==
    /\ UpstreamDone
    /\ env.limit = 3
    /\ batches = 2
    /\ WithValidRecord(3) = {1, 2}
    /\ ncalls[<<"batch_list_members", "", "">>] = 2
    /\ \E j \in 1..3 : IsMapError(latest_state[j])

\* the phases of a batch cycle in which records are mapped
MappingPhases == {"map", "custom", "categories", "interests", "lists"}

\* C21: the phases of a batch cycle follow one another as list resolution,
\* mapping, dispatch, reconciliation: no record is mapped before the lists
\* were fetched for the run; the results of the mapping are appended one at a
\* time, in the order of the records, and only while mapping; the upsert is
\* called once per cycle, when no record is being mapped, and the results do
\* not change any more afterwards; outcomes are folded only after
\* make_batch_request has returned; and a cycle starts only when the one
\* before has folded its outcomes.
C21_PhaseOrder ==
    /\ []((Len(mapped) > 0 \/ frame /= NoFrame \/ pc \in MappingPhases \cup {"reconcile"}) =>
            (batches > 0 /\ env.lists /= None
             /\ ncalls[<<"get_all_lists", "", "">>] = 1))
    /\ [][/\ (mapped' /= mapped =>
                \/ (pc = "idle" /\ mapped' = <<>>)
                \/ (/\ pc \in MappingPhases
                    /\ pc' = "map"
                    /\ Len(mapped') = Len(mapped) + 1
                    /\ SubSeq(mapped', 1, Len(mapped)) = mapped))
          /\ (Dispatching => (frame = NoFrame /\ mapped' = mapped /\ Len(mapped) > 0))
          /\ (ncalls'[<<"batch_list_members", "", "">>] /= ncalls[<<"batch_list_members", "", "">>]
                => (Dispatching /\ sent' = Records(mapped)))
          /\ (pc = "reconcile" => (mapped' = mapped /\ sent' = sent /\ pc' = "idle"))
          /\ (latest_state' /= latest_state => (pc = "reconcile" /\ response /= None))
          /\ (batches' /= batches =>
                (pc = "idle" /\ (batches > 0 =>
                    Len(latest_state) >= Len(MembersOf(response)) + Len(ErrorsOf(response))
                                         + Len(MapErrors(mapped)))))]_vars

\* C21 witness: a cycle of two records is over: the lists were fetched once,
\* both records were mapped, one upsert carried them and two outcomes were
\* folded.
C21_Witness ==
    /\ pc = "idle"
    /\ batches = 1
    /\ ncalls[<<"get_all_lists", "", "">>] = 1
    /\ Len(mapped) = 2
    /\ sent = mapped
    /\ ncalls[<<"batch_list_members", "", "">>] = 1
    /\ Len(latest_state) = 2

\* the calls that load or extend the schema caches
LoadCalls == {"get_list_merge_fields", "get_interest_categories", "get_interests"}
ProvisionCalls == {"add_list_merge_field", "create_interest"}

\* C22: the taxonomy cache is unset or complete: it is set only when the
\* categories and the interests of every category were fetched, it is still
\* unset after a failed fetch of the load (so that the next mapping with
\* lists would load it again), and so is the merge-field cache after its
\* failed fetch; a step in which a call fails changes neither cache, and a
\* cache that is set changes only in a step whose provisioning call succeeded.
C22_CachesUnsetOrComplete ==
    /\ [](groups_dict /= None =>
            /\ ncalls[<<"get_interest_categories", "", "">>] = 1
            /\ \A title \in DOMAIN groups_dict.v :
                   ncalls[<<"get_interests", title, "">>] = 1)
    /\ []((raised /= None /\ raised.call \in {"get_interest_categories", "get_interests"}) =>
            (groups_dict = None /\ NeedsGroupsFetch(groups_dict, list_id)))
    /\ []((raised /= None /\ raised.call = "get_list_merge_fields") => custom_fields = None)
    /\ [][/\ (pc' = "failed" => (custom_fields' = custom_fields /\ groups_dict' = groups_dict))
          /\ ((custom_fields /= None /\ custom_fields' /= custom_fields) =>
                 \E name \in FieldNames :
                     ncalls' = [ncalls EXCEPT ![<<"add_list_merge_field", name, "">>] = @ + 1])
          /\ ((groups_dict /= None /\ groups_dict' /= groups_dict) =>
                 \E key \in CreateCalls : ncalls' = [ncalls EXCEPT ![key] = @ + 1])]_vars

\* C22 witness: the load of the taxonomy failed at the interests of its
\* second category, after those of the first were fetched, and the cache is
\* unset.
C22_Witness ==
    /\ pc = "failed"
    /\ raised.call = "get_interests"
    /\ ncalls[<<"get_interests", "VIP", "">>] = 1
    /\ ncalls[<<"get_interests", "Tier", "">>] = 1
    /\ frame.t = 2
    /\ groups_dict = None

\* the step handles a custom field whose name the cache resolves
FieldHit ==
    /\ pc = "custom"
    /\ custom_fields /= None
    /\ frame.i <= Len(frame.record_custom_fields)
    /\ WellFormed(frame.record_custom_fields[frame.i])
    /\ Resolvable(custom_fields.v, NameOf(frame.record_custom_fields[frame.i]))

\* the step handles a list item whose title and name the cache holds
ItemHit ==
    /\ HandlingItem
    /\ TitleOf(ListsOf(frame.rec)[frame.l]) \in DOMAIN groups_dict.v
    /\ GroupNameOf(ListsOf(frame.rec)[frame.l])
           \in DOMAIN groups_dict.v[TitleOf(ListsOf(frame.rec)[frame.l])].group_names

\* C23: the session state only grows: a name -> tag entry of the merge-field
\* cache and a title, its id and a name -> id entry of the taxonomy stay as
\* they are once cached; a cache hit changes neither cache and makes no
\* call; and a key of the ExternalIdIndex stays a key, also in the step of a
\* failed dispatch and in the cycles after.
C23_SessionStateGrows ==
    [][/\ (custom_fields /= None =>
              /\ custom_fields' /= None
              /\ \A name \in DOMAIN custom_fields.v :
                     /\ name \in DOMAIN custom_fields'.v
                     /\ custom_fields'.v[name] = custom_fields.v[name])
       /\ (groups_dict /= None =>
              /\ groups_dict' /= None
              /\ \A title \in DOMAIN groups_dict.v :
                     /\ title \in DOMAIN groups_dict'.v
                     /\ groups_dict'.v[title].id = groups_dict.v[title].id
                     /\ \A name \in DOMAIN groups_dict.v[title].group_names :
                            /\ name \in DOMAIN groups_dict'.v[title].group_names
                            /\ groups_dict'.v[title].group_names[name]
                                   = groups_dict.v[title].group_names[name])
       /\ ((FieldHit \/ ItemHit) =>
              (custom_fields' = custom_fields /\ groups_dict' = groups_dict /\ ncalls' = ncalls))
       /\ DOMAIN external_ids_dict \subseteq DOMAIN external_ids_dict']_vars

\* C23 witness: the upsert of the second batch failed; the index holds the
\* emails of both batches and the merge-field cache the field provisioned in
\* the first.
C23_Witness ==
    /\ pc = "failed"
    /\ batches = 2
    /\ raised.call = "batch_list_members"
    /\ DOMAIN external_ids_dict = {"a@x.com", "b@x.com"}
    /\ custom_fields /= None
    /\ "New" \in DOMAIN custom_fields.v

\* addresses is there and is not a list
NonListAddresses(record) ==
    Truthy(Get(record, "addresses")) /\ Get(record, "addresses").t /= "list"

\* C24: what process_batch_record returns for a record is one result, and a
\* rejection is that of the first step that fails, in the order identity,
\* address, lists: a record with no email is rejected with HG_EMAIL_REQUIRED
\* whatever its addresses and lists; a record with an email and addresses
\* that are not a list is rejected with HG_ADDRESS_FORMAT_ERROR whatever its
\* lists; a rejection for its lists is that of a record with an email and
\* acceptable addresses; and the return of a rejection writes no
\* ExternalIdIndex entry.
C24_FirstFailureWins ==
    /\ [](\A j \in 1..Len(mapped) :
            LET m == mapped[j]
            IN /\ NoEmail(m.rec) => (IsRejection(m) /\ CodeOf(m) = "HG_EMAIL_REQUIRED")
               /\ (~NoEmail(m.rec) /\ NonListAddresses(m.rec)) =>
                      (IsRejection(m) /\ CodeOf(m) = "HG_ADDRESS_FORMAT_ERROR")
               /\ IsRejection(m) =>
                      /\ m.out.v.error_code.t = "str"
                      /\ CodeOf(m) \in {"HG_EMAIL_REQUIRED", "HG_ADDRESS_FORMAT_ERROR"} \cup ListCodes
                      /\ (CodeOf(m) = "HG_ADDRESS_FORMAT_ERROR" =>
                             (~NoEmail(m.rec) /\ NonListAddresses(m.rec)))
                      /\ (CodeOf(m) \in ListCodes =>
                             (~NoEmail(m.rec) /\ ~NonListAddresses(m.rec)
                              /\ Truthy(Get(m.rec, "lists")))))
    /\ [][/\ Len(mapped') <= Len(mapped) + 1
          /\ ((Returning /\ IsRejection(Returned)) =>
                 external_ids_dict' = external_ids_dict)]_vars

\* C24 witness: a batch holds a record with no email, addresses that are not
\* a list and a malformed list item, rejected for its email, and a record
\* with an email, addresses that are not a list and a malformed list item,
\* rejected for its addresses; the index is empty.
C24_Witness ==
    /\ Len(mapped) = 2
    /\ NoEmail(mapped[1].rec) /\ NonListAddresses(mapped[1].rec)
    /\ Truthy(Get(mapped[1].rec, "lists"))
    /\ CodeOf(mapped[1]) = "HG_EMAIL_REQUIRED"
    /\ ~NoEmail(mapped[2].rec) /\ NonListAddresses(mapped[2].rec)
    /\ Truthy(Get(mapped[2].rec, "lists"))
    /\ CodeOf(mapped[2]) = "HG_ADDRESS_FORMAT_ERROR"
    /\ external_ids_dict = EmptyDict

\* C25: two records of identical content mapped at different positions of a
\* run yield identical results, whatever was cached or provisioned between
\* the two mappings.
C25_MappingDeterministic ==
    \A i \in 1..Len(mapped) : \A j \in 1..Len(mapped) :
        mapped[i].rec = mapped[j].rec => mapped[i].out = mapped[j].out

====
